---- MODULE Spec2Model ----
(***************************************************************************)
(* YouTubeSummarizer: URL -> video id -> transcript -> Gemini summary ->    *)
(* optional JSON file.  Python strings are sequences of tokens (a token is  *)
(* a character or an indivisible word such as "watch"); Optional[str] is a  *)
(* tagged record so that None, '' and a raised exception stay distinct.     *)
(***************************************************************************)
EXTENDS Integers, Sequences, FiniteSets, TLC

VARIABLES
    pc,            \* where the driver / process_video is
    url,           \* process_video's argument
    save_to_file,  \* process_video's argument
    video_id,      \* process_video's local: extract_video_id's result
    transcript,    \* process_video's local: get_transcript's result
    prompt,        \* process_video's local: create_summary_prompt's result
    summary_text,  \* process_video's local: get_gemini_response's result
    summary,       \* the VideoSummary record being built / returned
    fetched,       \* what YouTubeTranscriptApi.get_transcript did in this call
    generated,     \* what model.generate_content did in this call
    save_outcome,  \* what the file system did in _save_summary in this call
    escaped,       \* the exception that left the call, "none" when none did
    nFetch, nGen, nSave,  \* calls issued by the current invocation
    dir_exists,    \* whether the directory summaries/ exists
    fs,            \* the files of summaries/: name -> sequence of documents
    persisted,     \* history: video id -> the last _save_summary that opened its file
    prev           \* history: the last invocation that returned a summary

vars == <<pc, url, save_to_file, video_id, transcript, prompt, summary_text,
          summary, fetched, generated, save_outcome, escaped,
          nFetch, nGen, nSave, dir_exists, fs, persisted, prev>>

(* ---------------------------------------------------------------------- *)
(* Bounds of the input spaces                                              *)
(* ---------------------------------------------------------------------- *)
MaxPath == 5
MaxQuery == 3
MaxSegs == 3

(* ---------------------------------------------------------------------- *)
(* Python values                                                           *)
(* ---------------------------------------------------------------------- *)
None == [tag |-> "None", val |-> <<>>]
Some(s) == [tag |-> "Some", val |-> s]
Raised == [tag |-> "Raise", val |-> <<>>]
\* A local that has not been assigned yet.
Unset == [tag |-> "Unset", val |-> <<>>]

\* `not x` for an Optional[str]: None and the empty string are falsy.
FalsyNoneOnly(o) == o = None
Falsy(o) == o = None \/ o = Some(<<>>)

RECURSIVE SeqsUpTo(_, _)
SeqsUpTo(S, n) ==
    IF n = 0 THEN {<<>>}
    ELSE LET shorter == SeqsUpTo(S, n - 1)
         IN shorter \cup {Append(s, t) : s \in {x \in shorter : Len(x) = n - 1}, t \in S}

\* Index of the first token of s that is in D, Len(s) + 1 when there is none.
RECURSIVE FirstOfFrom(_, _, _)
FirstOfFrom(s, D, i) ==
    IF i > Len(s) THEN Len(s) + 1
    ELSE IF s[i] \in D THEN i ELSE FirstOfFrom(s, D, i + 1)
FirstOf(s, D) == FirstOfFrom(s, D, 1)

\* str.find, 1-based, 0 when sub does not occur.
RECURSIVE FindFrom(_, _, _)
FindFrom(s, sub, i) ==
    IF i + Len(sub) - 1 > Len(s) THEN 0
    ELSE IF SubSeq(s, i, i + Len(sub) - 1) = sub THEN i
    ELSE FindFrom(s, sub, i + 1)
Find(s, sub) == FindFrom(s, sub, 1)

\* `sub in s`
Contains(s, sub) == Find(s, sub) # 0

\* s.split(sep)[-1]: str.split scans left to right without overlap.
RECURSIVE SplitLast(_, _)
SplitLast(s, sep) ==
    LET i == Find(s, sep)
    IN IF i = 0 THEN s ELSE SplitLast(SubSeq(s, i + Len(sep), Len(s)), sep)

\* s.split(t) for a one-token separator: the sequence of fields.
RECURSIVE Split(_, _)
Split(s, t) ==
    LET i == FirstOf(s, {t})
    IN IF i > Len(s) THEN <<s>>
       ELSE <<SubSeq(s, 1, i - 1)>> \o Split(SubSeq(s, i + 1, Len(s)), t)

(* ---------------------------------------------------------------------- *)
(* urllib.parse as extract_video_id uses it                                *)
(* ---------------------------------------------------------------------- *)
Scheme == "https://"

\* urlparse: the netloc runs from the scheme to the first "/" or "?", the path
\* to the first "?", the query is the rest.  A "[" without "]" in the netloc
\* raises ValueError (Invalid IPv6 URL).  Without a scheme everything up to
\* the "?" is path.
urlparse(u) ==
    LET hasNet == Len(u) >= 1 /\ u[1] = Scheme
        rest == IF hasNet THEN Tail(u) ELSE u
        n == IF hasNet THEN FirstOf(rest, {"/", "?"}) ELSE 1
        netloc == SubSeq(rest, 1, n - 1)
        after == SubSeq(rest, n, Len(rest))
        q == FirstOf(after, {"?"})
    IN [raises |-> Contains(netloc, <<"[">>) /\ ~Contains(netloc, <<"]">>),
        netloc |-> netloc,
        path |-> SubSeq(after, 1, q - 1),
        query |-> SubSeq(after, q + 1, Len(after))]

\* parse_qsl with keep_blank_values=False, strict_parsing=False: the fields
\* between "&", each split at its first "="; a field without "=" or with a
\* blank value is dropped.
RECURSIVE PairsOf(_)
PairsOf(fields) ==
    IF fields = <<>> THEN <<>>
    ELSE LET f == Head(fields)
             e == FirstOf(f, {"="})
             name == SubSeq(f, 1, e - 1)
             value == SubSeq(f, e + 1, Len(f))
         IN (IF e > Len(f) \/ value = <<>> THEN <<>> ELSE << <<name, value>> >>)
            \o PairsOf(Tail(fields))
parse_qsl(qs) == PairsOf(Split(qs, "&"))

\* parse_qs(query).get(key, [None])[0]
QueryGet(qs, key) ==
    LET hits == SelectSeq(parse_qsl(qs), LAMBDA p : p[1] = key)
    IN IF hits = <<>> THEN None ELSE Some(hits[1][2])

\* extract_video_id's body inside the try.
ExtractFrom(p) ==
    IF p.netloc = <<"youtu.be">> THEN Some(SubSeq(p.path, 2, Len(p.path)))
    ELSE IF p.netloc \in {<<"youtube.com">>, <<"www.youtube.com">>}
    THEN IF p.path = <<"/", "watch">> THEN QueryGet(p.query, <<"v">>)
         ELSE IF Contains(p.path, <<"/", "embed", "/">>)
              THEN Some(SplitLast(p.path, <<"/", "embed", "/">>))
         ELSE IF Contains(p.path, <<"/", "v", "/">>)
              THEN Some(SplitLast(p.path, <<"/", "v", "/">>))
         ELSE None
    ELSE None

\* A handler that lets the parse error through (no except clause).
extract_video_id_unguarded(u) ==
    LET p == urlparse(u) IN IF p.raises THEN Raised ELSE ExtractFrom(p)

\* extract_video_id: except Exception -> None.
extract_video_id(u) ==
    LET p == urlparse(u) IN IF p.raises THEN None ELSE ExtractFrom(p)

(* ---------------------------------------------------------------------- *)
(* The two services and the stage functions                                *)
(* ---------------------------------------------------------------------- *)
Seg(t, s, d) == [text |-> t, start |-> s, duration |-> d]

\* ' '.join(segment['text'] for segment in transcript)
RECURSIVE JoinNoSpace(_)
JoinNoSpace(segs) ==
    IF segs = <<>> THEN <<>> ELSE Head(segs).text \o JoinNoSpace(Tail(segs))
RECURSIVE Join(_)
Join(segs) ==
    IF segs = <<>> THEN <<>>
    ELSE IF Len(segs) = 1 THEN segs[1].text
    ELSE segs[1].text \o <<" ">> \o Join(Tail(segs))

\* What a service call did: raised, or returned a value.
ApiRaise == [raises |-> TRUE, segs |-> <<>>, text |-> <<>>]
ApiSegs(segs) == [raises |-> FALSE, segs |-> segs, text |-> <<>>]
ApiText(t) == [raises |-> FALSE, segs |-> <<>>, text |-> t]
NoCall == [raises |-> FALSE, segs |-> <<>>, text |-> <<"not called">>]

\* get_transcript: the joined texts, None on any exception.
get_transcript(r) == IF r.raises THEN None ELSE Some(Join(r.segs))

\* create_summary_prompt: the f-string puts str(transcript) into the template.
TemplateHead == "Generate a detailed and structured analysis ... Transcript:"
create_summary_prompt(t) ==
    <<TemplateHead>> \o (IF t.tag = "Some" THEN t.val ELSE <<"None">>)

\* get_gemini_response: response.text, None on any exception.
get_gemini_response(r) == IF r.raises THEN None ELSE Some(r.text)

\* VideoSummary(video_id=...) with the dataclass defaults.
VideoSummary(id) ==
    [video_id |-> id, title |-> None, transcript |-> None,
     summary |-> None, error |-> None]

\* The assignments process_video makes to the record.
WithTranscriptDropped(rec, t) == rec
WithTranscript(rec, t) == [rec EXCEPT !.transcript = t]
WithSummary(rec, g) == [rec EXCEPT !.summary = g]
WithErrorDropped(rec, e) == rec
WithError(rec, e) == [rec EXCEPT !.error = e]

\* Where process_video goes after the transcript check and after the summary
\* check: an early return, the next stage, or the optional persist.
AfterFetchRetry(t) == IF Falsy(t) THEN "fetch" ELSE "generate"
AfterFetch(t) == IF Falsy(t) THEN "returned" ELSE "generate"
AfterGenerateSaveAlways(g, save) == IF save THEN "save" ELSE "returned"
AfterGenerate(g, save) ==
    IF Falsy(g) THEN "returned" ELSE IF save THEN "save" ELSE "returned"

ErrInvalidUrl == Some(<<"Invalid YouTube URL">>)
ErrTranscript == Some(<<"Failed to fetch transcript">>)
ErrGeneration == Some(<<"Failed to generate summary">>)

(* ---------------------------------------------------------------------- *)
(* _save_summary                                                           *)
(* ---------------------------------------------------------------------- *)
\* output_dir / f"summary_{summary.video_id}.json", relative to summaries/
FileName(id) == <<"summary_">> \o id \o <<".json">>

\* summary_dict: the four keys that are dumped (title is not).
SummaryDict(rec) ==
    [video_id |-> rec.video_id, transcript |-> rec.transcript,
     summary |-> rec.summary, error |-> rec.error]

\* open(output_file, 'w') creates or truncates; json.dump writes one document.
WriteAppend(files, name, doc) ==
    (name :> ((IF name \in DOMAIN files THEN files[name] ELSE <<>>) \o <<doc>>)) @@ files
WriteTruncate(files, name, doc) == (name :> <<doc>>) @@ files

SaveOutcomes == {"ok", "mkdir_fail", "open_fail", "write_fail"}

\* What the file system does for this name: a name with "/" in it lies in a
\* directory summaries/summary_.../ that nothing creates, so open() fails.
Effective(name, o) ==
    IF o # "mkdir_fail" /\ Contains(name, <<"/">>) THEN "open_fail" ELSE o

\* The try body of _save_summary under file-system outcome o: mkdir, open,
\* json.dump.  A failed write leaves the file open() has truncated.
SaveTry(rec, dir, files, o) ==
    LET name == FileName(rec.video_id)
        e == Effective(name, o)
    IN [outcome |-> e,
        dir |-> IF e = "mkdir_fail" THEN dir ELSE TRUE,
        fs |-> IF e = "ok" THEN WriteTruncate(files, name, SummaryDict(rec))
               ELSE IF e = "write_fail" THEN (name :> <<>>) @@ files
               ELSE files]

\* A handler that records the failure on the record.
_save_summary_recording(rec, dir, files, o) ==
    LET t == SaveTry(rec, dir, files, o)
    IN [try |-> t, raises |-> FALSE,
        record |-> IF t.outcome = "ok" THEN rec
                   ELSE [rec EXCEPT !.error = Some(<<"Failed to save summary">>)]]

\* _save_summary: every exception is caught and logged; the record, passed
\* by reference, is not assigned to.
_save_summary(rec, dir, files, o) ==
    [try |-> SaveTry(rec, dir, files, o), raises |-> FALSE, record |-> rec]

(* ---------------------------------------------------------------------- *)
(* Inputs of the pipeline                                                  *)
(* ---------------------------------------------------------------------- *)
PipelineUrls ==
    { <<Scheme, "youtu.be", "/", "a">>,
      <<Scheme, "www.youtube.com", "/", "watch", "?", "v", "=", "b">>,
      <<Scheme, "youtube.com", "/", "embed", "/", "a">>,
      <<Scheme, "youtu.be", "/">>,
      <<Scheme, "youtu.be", "/", "a", "/", "b">>,
      <<Scheme, "example.com", "/", "a">>,
      <<Scheme, "[", "youtu.be", "/", "a">>,
      <<"youtu.be", "/", "a">> }

PipelineFetched ==
    { ApiRaise,
      ApiSegs(<<>>),
      ApiSegs(<<Seg(<<>>, 0, 1)>>),
      ApiSegs(<<Seg(<<"Hello">>, 0, 1)>>),
      ApiSegs(<<Seg(<<"Hello">>, 0, 1), Seg(<<"world">>, 1, 2)>>) }

PipelineGenerated == { ApiRaise, ApiText(<<>>), ApiText(<<"S1">>) }

(* ---------------------------------------------------------------------- *)
(* The driver and process_video                                            *)
(* ---------------------------------------------------------------------- *)
locals == <<url, save_to_file, video_id, transcript, prompt, summary_text,
            summary, fetched, generated, save_outcome, nFetch, nGen, nSave>>
store == <<dir_exists, fs, persisted>>

NoRecord == VideoSummary(<<>>)

\* Nothing constructed, nothing invoked, no output directory.
Blank ==
    /\ escaped = "none"
    /\ url = <<>> /\ save_to_file = FALSE
    /\ video_id = Unset /\ transcript = Unset /\ summary_text = Unset
    /\ prompt = <<>> /\ summary = NoRecord
    /\ fetched = NoCall /\ generated = NoCall /\ save_outcome = "none"
    /\ nFetch = 0 /\ nGen = 0 /\ nSave = 0
    /\ dir_exists = FALSE
    /\ fs = <<>>
    /\ persisted = <<>>
    /\ prev = {}

Init ==
    /\ pc = "start"
    /\ Blank

\* An exception no handler caught leaves process_video (it has no try).
Crash ==
    /\ pc' = "crashed"
    /\ escaped' = "process_video"

\* YouTubeSummarizer.__init__: configure_gemini logs and re-raises.
Construct ==
    /\ pc = "start"
    /\ \E raises \in BOOLEAN :
         IF raises THEN pc' = "crashed" /\ escaped' = "config"
         ELSE pc' = "idle" /\ UNCHANGED escaped
    /\ UNCHANGED <<locals, store, prev>>

\* process_video(u, s) up to its first return or first service call.
ProcessVideo(u, s) ==
    /\ pc = "idle"
    /\ url' = u
    /\ save_to_file' = s
    /\ LET id == extract_video_id(u)
       IN /\ video_id' = id
          /\ IF id = Raised THEN Crash /\ UNCHANGED summary
             ELSE /\ UNCHANGED escaped
                  /\ IF Falsy(id)
                     THEN /\ summary' = WithError(VideoSummary(<<>>), ErrInvalidUrl)
                          /\ pc' = "returned"
                     ELSE /\ summary' = VideoSummary(id.val)
                          /\ pc' = "fetch"
    /\ UNCHANGED <<transcript, prompt, summary_text, fetched, generated,
                   save_outcome, nFetch, nGen, nSave, store, prev>>

\* transcript = self.get_transcript(video_id) and the check after it.
Fetch ==
    /\ pc = "fetch"
    /\ \E r \in PipelineFetched :
         LET t == get_transcript(r)
         IN /\ fetched' = r
            /\ nFetch' = nFetch + 1
            /\ transcript' = t
            /\ IF t = Raised THEN Crash /\ UNCHANGED summary
               ELSE /\ UNCHANGED escaped
                    /\ IF Falsy(t)
                       THEN summary' = WithError(summary, ErrTranscript)
                       ELSE summary' = WithTranscript(summary, t)
                    /\ pc' = AfterFetch(t)
    /\ UNCHANGED <<url, save_to_file, video_id, prompt, summary_text, generated,
                   save_outcome, nGen, nSave, store, prev>>

\* prompt, summary_text = self.get_gemini_response(prompt) and the check.
Generate ==
    /\ pc = "generate"
    /\ prompt' = create_summary_prompt(transcript)
    /\ \E r \in PipelineGenerated :
         LET g == get_gemini_response(r)
         IN /\ generated' = r
            /\ nGen' = nGen + 1
            /\ summary_text' = g
            /\ IF g = Raised THEN Crash /\ UNCHANGED summary
               ELSE /\ UNCHANGED escaped
                    /\ IF Falsy(g)
                       THEN summary' = WithError(summary, ErrGeneration)
                       ELSE summary' = WithSummary(summary, g)
                    /\ pc' = AfterGenerate(g, save_to_file)
    /\ UNCHANGED <<url, save_to_file, video_id, transcript, fetched,
                   save_outcome, nFetch, nSave, store, prev>>

\* self._save_summary(summary)
Save ==
    /\ pc = "save"
    /\ \E o \in SaveOutcomes :
         LET r == _save_summary(summary, dir_exists, fs, o)
         IN /\ nSave' = nSave + 1
            /\ save_outcome' = r.try.outcome
            /\ dir_exists' = r.try.dir
            /\ fs' = r.try.fs
            /\ summary' = r.record
            /\ persisted' =
                 IF r.try.outcome \in {"ok", "write_fail"}
                 THEN (summary.video_id :>
                         [ok |-> r.try.outcome = "ok", rec |-> summary]) @@ persisted
                 ELSE persisted
            /\ IF r.raises THEN Crash
               ELSE pc' = "returned" /\ UNCHANGED escaped
    /\ UNCHANGED <<url, save_to_file, video_id, transcript, prompt, summary_text,
                   fetched, generated, nFetch, nGen, prev>>

\* return summary: the caller has the record; the locals are gone.
Return ==
    /\ pc = "returned"
    /\ pc' = "idle"
    /\ prev' = IF summary.error = None
               THEN {[url |-> url, fetched |-> fetched, generated |-> generated,
                      save_outcome |-> save_outcome,
                      record |-> summary]}
               ELSE prev
    /\ url' = <<>> /\ save_to_file' = FALSE
    /\ video_id' = Unset /\ transcript' = Unset /\ summary_text' = Unset
    /\ prompt' = <<>> /\ summary' = NoRecord
    /\ fetched' = NoCall /\ generated' = NoCall /\ save_outcome' = "none"
    /\ nFetch' = 0 /\ nGen' = 0 /\ nSave' = 0
    /\ UNCHANGED <<escaped, store>>

Next ==
    \/ Construct
    \/ \E u \in PipelineUrls, s \in BOOLEAN : ProcessVideo(u, s)
    \/ Fetch
    \/ Generate
    \/ Save
    \/ Return

Spec == Init /\ [][Next]_vars

(* ---------------------------------------------------------------------- *)
(* extract_video_id alone, over every URL of a bounded shape               *)
(* ---------------------------------------------------------------------- *)
Hosts == {"youtu.be", "youtube.com", "www.youtube.com", "example.com"}
PathTokens == {"/", "watch", "embed", "v", "a"}
QueryTokens == {"v", "=", "&", "a"}

\* A path is empty or starts with "/" and has no empty segment inside; a
\* query, when there is one, follows "?".
Paths ==
    {p \in SeqsUpTo(PathTokens, MaxPath) :
        /\ p = <<>> \/ p[1] = "/"
        /\ ~Contains(p, <<"/", "/">>)}
Queries == {<<>>} \cup {<<"?">> \o q : q \in SeqsUpTo(QueryTokens, MaxQuery)}
ExtractUrls == {<<Scheme, h>> \o p \o q : h \in Hosts, p \in Paths, q \in Queries}

InitExtract ==
    /\ pc = "parse"
    /\ escaped = "none"
    /\ url \in ExtractUrls
    /\ save_to_file = FALSE
    /\ video_id = Unset /\ transcript = Unset /\ summary_text = Unset
    /\ prompt = <<>> /\ summary = NoRecord
    /\ fetched = NoCall /\ generated = NoCall /\ save_outcome = "none"
    /\ nFetch = 0 /\ nGen = 0 /\ nSave = 0
    /\ dir_exists = FALSE /\ fs = <<>> /\ persisted = <<>> /\ prev = {}

ExtractOnly ==
    /\ pc = "parse"
    /\ video_id' = extract_video_id(url)
    /\ pc' = "parsed"
    /\ UNCHANGED <<url, save_to_file, transcript, prompt, summary_text, summary,
                   fetched, generated, save_outcome, escaped, nFetch, nGen, nSave,
                   store, prev>>

SpecExtract == InitExtract /\ [][ExtractOnly]_vars

(* ---------------------------------------------------------------------- *)
(* get_transcript alone, over every bounded list of segments               *)
(* ---------------------------------------------------------------------- *)
Texts == {<<>>, <<"Hello">>, <<"world">>, <<" ">>, <<"a", " ">>}
Segments == {Seg(t, s, d) : t \in Texts, s \in {0, 5}, d \in {2}}
JoinInputs == {ApiRaise} \cup {ApiSegs(segs) : segs \in SeqsUpTo(Segments, MaxSegs)}

InitJoin ==
    /\ pc = "join"
    /\ escaped = "none"
    /\ url = <<>> /\ save_to_file = FALSE
    /\ video_id = Some(<<"a">>) /\ transcript = Unset /\ summary_text = Unset
    /\ prompt = <<>> /\ summary = NoRecord
    /\ fetched \in JoinInputs /\ generated = NoCall /\ save_outcome = "none"
    /\ nFetch = 0 /\ nGen = 0 /\ nSave = 0
    /\ dir_exists = FALSE /\ fs = <<>> /\ persisted = <<>> /\ prev = {}

JoinOnly ==
    /\ pc = "join"
    /\ transcript' = get_transcript(fetched)
    /\ nFetch' = nFetch + 1
    /\ pc' = "joined"
    /\ UNCHANGED <<url, save_to_file, video_id, prompt, summary_text, summary,
                   fetched, generated, save_outcome, escaped, nGen, nSave,
                   store, prev>>

SpecJoin == InitJoin /\ [][JoinOnly]_vars

(* ---------------------------------------------------------------------- *)
(* Properties                                                              *)
(* ---------------------------------------------------------------------- *)
\* A stage result that is null or empty / one that is a non-empty string.
NullOrEmpty(o) == o.tag = "None" \/ (o.tag = "Some" /\ o.val = <<>>)
NonEmpty(o) == o.tag = "Some" /\ o.val # <<>>
NameOf(id) == <<"summary_">> \o id \o <<".json">>
FourFields(rec) ==
    [video_id |-> rec.video_id, transcript |-> rec.transcript,
     summary |-> rec.summary, error |-> rec.error]

\* C1: process_video short-circuits on the first failed stage.  While the
\* extracted identifier is none (or empty) no transcript call and no
\* generation call has been issued, and the record returned carries the
\* invalid-URL message; while the identifier is there but the transcript fetch
\* has failed, no generation call has been issued and the record returned
\* carries the transcript-unavailable message.
C1_ShortCircuit ==
    /\ NullOrEmpty(video_id) =>
         /\ nFetch = 0 /\ nGen = 0
         /\ fetched = NoCall /\ generated = NoCall
         /\ pc = "returned"
         /\ summary.error = Some(<<"Invalid YouTube URL">>)
    /\ (NonEmpty(video_id) /\ NullOrEmpty(transcript)) =>
         /\ nFetch = 1 /\ nGen = 0
         /\ generated = NoCall
         /\ pc = "returned"
         /\ summary.error = Some(<<"Failed to fetch transcript">>)
C1_Witness ==
    /\ pc = "returned"
    /\ NonEmpty(video_id)
    /\ fetched.raises
    /\ transcript = None

\* C2: a run in which extraction, transcript fetch and generation all gave a
\* non-empty result returns a record with a transcript, a summary and no
\* error, with or without save_to_file and whatever the file write did.
C2_SuccessRecord ==
    (pc = "returned" /\ NonEmpty(video_id) /\ NonEmpty(transcript)
        /\ NonEmpty(summary_text)) =>
      /\ summary.transcript.tag = "Some"
      /\ summary.summary.tag = "Some"
      /\ summary.error = None
C2_Witness ==
    /\ pc = "returned"
    /\ NonEmpty(video_id) /\ NonEmpty(transcript) /\ NonEmpty(summary_text)
    /\ save_to_file
    /\ save_outcome = "write_fail"

\* C4: no exception leaves process_video: an exception in URL parsing, the
\* transcript call, the generation call or the file write becomes a null
\* result (or is dropped), and the call can always go on to its return.  The
\* only exception that escapes is the configuration failure of the constructor,
\* before any process_video call.
C4_NoEscape ==
    /\ escaped \in {"none", "config"}
    /\ (pc = "crashed") <=> (escaped = "config")
    /\ escaped = "config" => (url = <<>> /\ video_id = Unset /\ prev = {})
    /\ (pc \in {"fetch", "generate", "save", "returned"} /\ urlparse(url).raises) =>
          video_id = None
    /\ fetched.raises => transcript = None
    /\ generated.raises => summary_text = None
    /\ pc \in {"fetch", "generate", "save", "returned"} =>
          /\ summary.video_id = IF NonEmpty(video_id) THEN video_id.val ELSE <<>>
          /\ ENABLED (Fetch \/ Generate \/ Save \/ Return)
C4_Witness ==
    /\ pc = "returned"
    /\ escaped = "none"
    /\ nSave = 1
    /\ save_outcome = "open_fail"

\* C5: a failed persist leaves no trace on the returned record: it carries no
\* error, and it equals the record returned by the previous successful
\* invocation on the same URL and the same service responses, whatever that
\* invocation's save_to_file and write outcome were.
C5_PersistFailureSwallowed ==
    (pc = "returned" /\ nSave = 1 /\ save_outcome # "ok") =>
      /\ summary.error = None
      /\ \A p \in prev :
           (p.url = url /\ p.fetched = fetched /\ p.generated = generated) =>
              p.record = summary
C5_Witness ==
    /\ pc = "returned"
    /\ nSave = 1
    /\ save_outcome = "write_fail"
    /\ \E p \in prev :
         /\ p.url = url /\ p.fetched = fetched /\ p.generated = generated
         /\ p.save_outcome \in {"none", "ok"}

\* C6: the store holds exactly one file per video identifier whose file a
\* persist has opened, named summary_<videoId>.json; when the most recent
\* persist for an identifier succeeded, the file holds exactly one document,
\* with the four fields of that record.
C6_Overwrite ==
    /\ DOMAIN fs = {NameOf(id) : id \in DOMAIN persisted}
    /\ Cardinality(DOMAIN fs) = Cardinality(DOMAIN persisted)
    /\ \A id \in DOMAIN persisted :
         persisted[id].ok =>
           /\ persisted[id].rec.video_id = id
           /\ fs[NameOf(id)] = <<FourFields(persisted[id].rec)>>
C6_Witness ==
    /\ pc = "returned"
    /\ save_outcome = "ok"
    /\ Cardinality(DOMAIN fs) = 2
    /\ \E p \in prev :
         /\ p.save_outcome = "ok"
         /\ p.record.video_id = summary.video_id
         /\ p.record # summary
    /\ fs[NameOf(summary.video_id)] = <<FourFields(summary)>>

\* C7: within one invocation each call is issued at most once; the generation
\* call only after the transcript call returned a non-empty transcript; the
\* persist step only after the generation call returned a non-empty summary.
C7_NoRetryStrictOrder ==
    /\ nFetch \in {0, 1} /\ nGen \in {0, 1} /\ nSave \in {0, 1}
    /\ nFetch = 1 => NonEmpty(video_id)
    /\ nGen = 1 => (nFetch = 1 /\ NonEmpty(transcript))
    /\ nSave = 1 => (nGen = 1 /\ NonEmpty(summary_text) /\ save_to_file)
    /\ pc = "generate" => (nFetch = 1 /\ nGen = 0)
    /\ pc = "save" => (nGen = 1 /\ nSave = 0)
C7_Witness ==
    /\ pc = "returned"
    /\ nFetch = 1 /\ nGen = 1 /\ nSave = 1

\* C9: a returned record is a Success (no error, a summary) or a Failed (an
\* error, no summary), and it has an error exactly when some stage gave a null
\* or empty result.
C9_TerminalStates ==
    pc = "returned" =>
      /\ \/ (summary.error = None /\ summary.summary.tag = "Some")
         \/ (summary.error.tag = "Some" /\ summary.summary = None)
      /\ (summary.error.tag = "Some") <=>
           (NullOrEmpty(video_id) \/ NullOrEmpty(transcript) \/ NullOrEmpty(summary_text))
C9_Witness ==
    /\ pc = "returned"
    /\ summary_text = Some(<<>>)
    /\ summary.error = Some(<<"Failed to generate summary">>)

\* C10: failed records are never persisted.  Every document in the store has
\* no error, a transcript and a summary; an invocation that returns a failed
\* record has not run the persist step; and the store changes only in the
\* persist step of an invocation with save_to_file set that holds a Success
\* record.
C10_StoreHoldsSuccesses ==
    /\ \A n \in DOMAIN fs : \A i \in 1..Len(fs[n]) :
         /\ fs[n][i].error = None
         /\ fs[n][i].transcript.tag = "Some"
         /\ fs[n][i].summary.tag = "Some"
    /\ (pc = "returned" /\ summary.error # None) => (nSave = 0 /\ save_outcome = "none")
C10_StoreChangesOnlyOnSuccess ==
    (fs' # fs \/ dir_exists' # dir_exists) =>
       /\ pc = "save" /\ save_to_file
       /\ summary.error = None
       /\ summary.transcript.tag = "Some" /\ summary.summary.tag = "Some"
C10_FailedNeverPersisted ==
    [](C10_StoreHoldsSuccesses) /\ [][C10_StoreChangesOnlyOnSuccess]_vars
C10_Witness ==
    /\ pc = "returned"
    /\ save_to_file
    /\ summary.error = Some(<<"Failed to generate summary">>)
    /\ NameOf(summary.video_id) \in DOMAIN fs
    /\ fs[NameOf(summary.video_id)] # <<>>

\* The 0-based position in the joined string at which the i-th text starts
\* when consecutive texts are one token apart.
RECURSIVE Offset(_, _)
Offset(segs, i) ==
    IF i = 1 THEN 0 ELSE Offset(segs, i - 1) + Len(segs[i - 1].text) + 1

\* C8: for every list of segments the service returns, get_transcript gives
\* the texts in their order, each followed by exactly one space except the
\* last, and nothing else (no timing data).
C8_SingleSpaceJoin ==
    (pc = "joined" /\ ~fetched.raises) =>
      LET segs == fetched.segs
          n == Len(segs)
          out == transcript.val
      IN /\ transcript.tag = "Some"
         /\ Len(out) = IF n = 0 THEN 0 ELSE Offset(segs, n) + Len(segs[n].text)
         /\ \A i \in 1..n :
              SubSeq(out, Offset(segs, i) + 1, Offset(segs, i) + Len(segs[i].text))
                = segs[i].text
         /\ \A i \in 1..(n - 1) : out[Offset(segs, i) + Len(segs[i].text) + 1] = " "
C8_Witness ==
    /\ pc = "joined"
    /\ Len(fetched.segs) = 2
    /\ fetched.segs[1].start # fetched.segs[2].start
    /\ transcript = Some(<<"Hello", " ", "world">>)

\* C3: extract_video_id returns the identifier the URL's shape defines: for
\* the short-link host the first path segment; for the canonical host the v
\* query parameter when the path is /watch, the trailing path segment when
\* the path contains /embed/ or /v/; none for any other host or path.  (An
\* empty identifier is taken as none.)
C3_SplitFirst(s, sep) ==
    LET i == Find(s, sep)
    IN IF i = 0 THEN s ELSE SubSeq(s, 1, i - 1)
C3_FirstSegment(path) ==
    IF path = <<>> THEN <<>> ELSE C3_SplitFirst(SubSeq(path, 2, Len(path)), <<"/">>)
C3_TrailingSegment(path) == SplitLast(path, <<"/">>)
C3_Expected(u) ==
    LET p == urlparse(u)
    IN IF p.netloc = <<"youtu.be">> THEN Some(C3_FirstSegment(p.path))
       ELSE IF p.netloc \in {<<"youtube.com">>, <<"www.youtube.com">>}
       THEN IF p.path = <<"/", "watch">> THEN QueryGet(p.query, <<"v">>)
            ELSE IF Contains(p.path, <<"/", "embed", "/">>)
                    \/ Contains(p.path, <<"/", "v", "/">>)
                 THEN Some(C3_TrailingSegment(p.path))
            ELSE None
       ELSE None
C3_SameIdentifier(a, b) == (NullOrEmpty(a) /\ NullOrEmpty(b)) \/ a = b
C3_ExtractAsSpecified ==
    pc = "parsed" => C3_SameIdentifier(video_id, C3_Expected(url))

====
